---- MODULE Spec2Model ----
(***************************************************************************)
(* One run of PRReviewAgent.next_turn (pr_agent/PR_agent.py) together with *)
(* GitGrepAgent (pr_agent/git_grep_agent.py).                              *)
(*                                                                         *)
(* Text is modelled as a sequence of tokens; ":" is the colon character    *)
(* and ".py" / ".md" are file extensions.  A Python dict is modelled as    *)
(* the sequence of its entries in insertion order.                         *)
(***************************************************************************)
EXTENDS Integers, Sequences, FiniteSets, TLC

----------------------------------------------------------------------------
(* Bounds of the model *)

MaxShort == 2
MaxLong == 11
MaxFailures == 1

(* queries.searches[:10] *)
MaxSearches == 10

----------------------------------------------------------------------------
(* Inputs *)

Queries == {"q1", "q2"}

PatchText == <<"diff">>

FileA == <<"a", ".py">>
FileB == <<"b", ".py">>
FileDoc == <<"c", ".md">>

LineA1 == FileA \o <<":", "1", ":", "callA">>
LineA2 == FileA \o <<":", "7", ":", "x", ":", "y">>
LineB1 == FileB \o <<":", "2", ":", "callB">>
LineDoc == FileDoc \o <<":", "1", ":", "doc">>
LineBinary == <<"Binary file d.bin matches">>
LineEmpty == << >>

(* what "git grep -n <query>" can print for one query *)
Outputs ==
  { << >>,
    <<LineA1, LineEmpty, LineA2>>,
    <<LineA2, LineB1, LineBinary>>,
    <<LineDoc>> }

Min(a, b) == IF a < b THEN a ELSE b

ConstSeq(n, q) == [i \in 1..n |-> q]

(* the lists the query agent can return: every list of at most MaxShort   *)
(* queries, and lists that reach and pass the MaxSearches cut             *)
QueryLists ==
  UNION {[1..n -> Queries] : n \in 0..MaxShort}
  \cup {ConstSeq(n, "q1") : n \in MaxSearches..MaxLong}

----------------------------------------------------------------------------
(* GitGrepAgent.run_git_grep *)

RECURSIVE IndexOf(_, _, _)
IndexOf(s, tok, i) ==
  IF i > Len(s) THEN 0
  ELSE IF s[i] = tok THEN i
  ELSE IndexOf(s, tok, i + 1)

(* str.split(":", maxsplit) *)
RECURSIVE Split(_, _)
Split(line, maxsplit) ==
  LET i == IndexOf(line, ":", 1) IN
  IF maxsplit = 0 \/ i = 0 THEN <<line>>
  ELSE <<SubSeq(line, 1, i - 1)>> \o Split(SubSeq(line, i + 1, Len(line)), maxsplit - 1)

(* the loop over result.stdout.splitlines() *)
RECURSIVE ParseLines(_)
ParseLines(lines) ==
  IF lines = << >> THEN << >>
  ELSE LET line == Head(lines)
           parts == Split(line, 2)
           rest == ParseLines(Tail(lines))
       IN IF line = << >> THEN rest
          ELSE IF Len(parts) = 3
               THEN <<[file_path |-> parts[1], matched_line |-> parts[3]]>> \o rest
               ELSE rest

(* outcomes of subprocess.run(["git","grep","-n",query], check=False) *)
(* returncode 128: not a git repository; 127 stands for a process that   *)
(* could not be started, where subprocess.run raises                      *)
ProcOk(stdout) ==
  [raised |-> FALSE, returncode |-> IF stdout = << >> THEN 1 ELSE 0, stdout |-> stdout]
ProcNonZero == [raised |-> FALSE, returncode |-> 128, stdout |-> << >>]
ProcRaise == [raised |-> TRUE, returncode |-> 127, stdout |-> << >>]

RunGitGrep_NoExcept(proc) ==
  IF proc.raised THEN [raised |-> TRUE, matches |-> << >>]
  ELSE [raised |-> FALSE, matches |-> ParseLines(proc.stdout)]

RunGitGrep(proc) ==
  IF proc.raised THEN [raised |-> FALSE, matches |-> << >>]
  ELSE [raised |-> FALSE, matches |-> ParseLines(proc.stdout)]

----------------------------------------------------------------------------
(* GitGrepAgent.get_search *)

HasKey(dict, key) == \E i \in 1..Len(dict) : dict[i].file = key

Keys(dict) == {dict[i].file : i \in 1..Len(dict)}

EndsWithPy(path) == Len(path) > 0 /\ path[Len(path)] = ".py"

(* open + ast.parse + top-level ClassDef/FunctionDef names; b.py does not *)
(* parse, which the bare except turns into []                              *)
IncludedDefs(path) ==
  IF path = FileA THEN <<"ClassA", "func_a">> ELSE << >>

CodeSection(file_path, matched_line) ==
  [search_result |-> matched_line,
   file_path |-> file_path,
   included_defs |-> IncludedDefs(file_path),
   similarity_score |-> 1]

RECURSIVE AddSections(_, _)
AddSections(sections, grep_results) ==
  IF grep_results = << >> THEN sections
  ELSE LET m == Head(grep_results) IN
       IF ~HasKey(sections, m.file_path) /\ EndsWithPy(m.file_path)
       THEN AddSections(
              Append(sections, [file |-> m.file_path,
                                section |-> CodeSection(m.file_path, m.matched_line)]),
              Tail(grep_results))
       ELSE AddSections(sections, Tail(grep_results))

GetSearch(proc) ==
  LET g == RunGitGrep(proc) IN
  [raised |-> g.raised,
   matches |-> g.matches,
   sections |-> IF g.raised THEN << >> ELSE AddSections(<< >>, g.matches)]

----------------------------------------------------------------------------
(* PRReviewAgent: helpers of next_turn *)

SearchResult_PathFromContent(query, section) ==
  [query |-> query,
   file_path |-> section.search_result,
   content |-> section.search_result,
   included_defs |-> section.included_defs]

(* SearchResult(query=..., file_path=..., content=..., included_defs=...);  *)
(* similarity_score is no field of SearchResult and is dropped             *)
SearchResult(query, section) ==
  [query |-> query,
   file_path |-> section.file_path,
   content |-> section.search_result,
   included_defs |-> section.included_defs]

RECURSIVE MergeSections_NoCheck(_, _, _)
MergeSections_NoCheck(all, query, sections) ==
  IF sections = << >> THEN all
  ELSE LET e == Head(sections) IN
       MergeSections_NoCheck(
         Append(all, [file |-> e.file, result |-> SearchResult(query, e.section)]),
         query, Tail(sections))

RECURSIVE MergeSections_LastWins(_, _, _)
MergeSections_LastWins(all, query, sections) ==
  IF sections = << >> THEN all
  ELSE LET e == Head(sections)
           new == [file |-> e.file, result |-> SearchResult(query, e.section)]
       IN MergeSections_LastWins(
            IF HasKey(all, e.file)
            THEN [i \in 1..Len(all) |-> IF all[i].file = e.file THEN new ELSE all[i]]
            ELSE Append(all, new),
            query, Tail(sections))

(* for file, result in searchResponse.sections.items():                    *)
(*     if not file in all_results: all_results[file] = SearchResult(...)   *)
RECURSIVE MergeSections(_, _, _)
MergeSections(all, query, sections) ==
  IF sections = << >> THEN all
  ELSE LET e == Head(sections) IN
       MergeSections(
         IF ~HasKey(all, e.file)
         THEN Append(all, [file |-> e.file, result |-> SearchResult(query, e.section)])
         ELSE all,
         query, Tail(sections))

(* queries.searches[:10] *)
Consumed(qs) == SubSeq(qs, 1, Min(Len(qs), MaxSearches))

(* what the relevance agent can do with one prompt *)
RelevanceOutcomes == {"relevant", "irrelevant", "raise", "malformed"}

RelevanceTry_NoExcept(outcome) ==
  [called |-> outcome # "NameError",
   reset |-> outcome \in {"relevant", "irrelevant", "malformed"},
   keep |-> outcome = "relevant",
   escaped |-> outcome \in {"NameError", "raise", "malformed"}]

(* the try/except around one candidate: the prompt is built (NameError     *)
(* when patch_content is unbound), the agent is called, reset_history      *)
(* runs when the call returned, .relevant is read; except Exception        *)
(* prints and goes on                                                      *)
RelevanceTry(outcome) ==
  [called |-> outcome # "NameError",
   reset |-> outcome \in {"relevant", "irrelevant", "malformed"},
   keep |-> outcome = "relevant",
   escaped |-> FALSE]

PrepareSummary_ExtraBlock(patch, filtered) ==
  <<[tag |-> <<"Patch file">>, body |-> patch]>>
  \o [i \in 1..Len(filtered) |->
        [tag |-> filtered[i].file_path, body |-> filtered[i].content]]
  \o <<[tag |-> << >>, body |-> << >>]>>

PrepareSummary(patch, filtered) ==
  <<[tag |-> <<"Patch file">>, body |-> patch]>>
  \o [i \in 1..Len(filtered) |->
        [tag |-> filtered[i].file_path, body |-> filtered[i].content]]

ConfigKeys == {"REPO_OWNER", "REPO_NAME", "PR_ID", "GITHUB_API_KEY"}
(* os.getenv gives None for an unset key and "" for an empty one: both   *)
(* are false in all([...])                                                *)
Configs ==
  [ConfigKeys -> {"unset", "set"}]
  \cup {c \in [ConfigKeys -> {"empty", "set"}] :
          Cardinality({k \in ConfigKeys : c[k] = "empty"}) = 1}
Responses == {"2xx", "4xx"}

PostToGithubResult_PostFirst(config, response) ==
  IF response # "2xx"
  THEN [http |-> 1, failure |-> "HTTPError", url |-> "none"]
  ELSE IF \E k \in ConfigKeys : config[k] # "set"
  THEN [http |-> 1, failure |-> "ConfigError", url |-> "none"]
  ELSE [http |-> 1, failure |-> "none", url |-> "html_url"]

(* post_to_github: os.getenv of the four keys, the all([...]) test, then   *)
(* requests.post and raise_for_status                                      *)
PostToGithubResult(config, response) ==
  IF \E k \in ConfigKeys : config[k] # "set"
  THEN [http |-> 0, failure |-> "ConfigError", url |-> "none"]
  ELSE IF response # "2xx"
  THEN [http |-> 1, failure |-> "HTTPError", url |-> "none"]
  ELSE [http |-> 1, failure |-> "none", url |-> "html_url"]

----------------------------------------------------------------------------
(* State *)

VARIABLES
  pc,               \* position in next_turn
  failure,          \* the exception that left next_turn, "none" if none
  patchBound,       \* the module global patch_content is bound
  corpus,           \* what git grep prints for each query
  queries,          \* queries.searches
  qi,               \* index of the query the loop is at
  all_results,      \* dict file -> SearchResult, in insertion order
  ci,               \* index of the candidate the filter is at
  filtered_results, \* list of SearchResult
  bundle,           \* formatted_str, as a list of tagged blocks
  config,           \* the environment post_to_github read
  url,              \* comment_url
  searchCalls,      \* number of run_git_grep calls
  lastSearch,       \* the last run_git_grep call: process, matches, sections
  firstHit,         \* per path, the first search call that returned it
  hitBy,            \* pairs <<path, query index>>: the query returned the path
  allZero,          \* no search call had a match so far
  relLog,           \* one record per candidate the filter looked at
  nFail,            \* git grep processes that failed
  dirty,            \* the relevance agent was called since its last reset
  staleCalls,       \* relevance calls made on a history not reset
  completions,      \* calls to the completion service
  httpCalls,        \* requests.post calls
  postCalls         \* post_to_github calls

vars == <<pc, failure, patchBound, corpus, queries, qi, all_results, ci,
          filtered_results, bundle, config, url, searchCalls, lastSearch,
          firstHit, hitBy, allZero, relLog, nFail, dirty, staleCalls, completions, httpCalls, postCalls>>

NoConfig == [k \in ConfigKeys |-> "unread"]

Init ==
  /\ pc = "start"
  /\ failure = "none"
  /\ patchBound \in BOOLEAN
  /\ corpus \in [Queries -> Outputs]
  /\ queries = << >>
  /\ qi = 1
  /\ all_results = << >>
  /\ ci = 1
  /\ filtered_results = << >>
  /\ bundle = << >>
  /\ config = NoConfig
  /\ url = "none"
  /\ searchCalls = 0
  /\ lastSearch = << >>
  /\ firstHit = {}
  /\ hitBy = {}
  /\ allZero = TRUE
  /\ relLog = << >>
  /\ nFail = 0
  /\ dirty = FALSE
  /\ staleCalls = 0
  /\ completions = 0
  /\ httpCalls = 0
  /\ postCalls = 0

LoopHead(qs, i) == IF i <= Len(Consumed(qs)) THEN "search" ELSE "filter"

FilterHead(all, i) == IF i <= Len(all) THEN "filter" ELSE "assemble"

(* the processes one git grep call can turn out to be *)
Processes(query) ==
  {ProcOk(corpus[query])}
  \cup (IF nFail < MaxFailures THEN {ProcNonZero, ProcRaise} ELSE {})

Failed(proc) == proc.raised \/ proc.returncode = 128

(* what one search call did, recorded from the raw matches *)
PyPathsOf(matches) ==
  {matches[i].file_path : i \in {j \in 1..Len(matches) : EndsWithPy(matches[j].file_path)}}

FirstLineFor(matches, path) ==
  LET first == CHOOSE i \in 1..Len(matches) :
                 /\ matches[i].file_path = path
                 /\ \A j \in 1..(i - 1) : matches[j].file_path # path
  IN matches[first].matched_line

Observe(i, query, proc, r) ==
  /\ searchCalls' = searchCalls + 1
  /\ lastSearch' = <<[qidx |-> i, query |-> query, proc |-> proc,
                      raised |-> r.raised, matches |-> r.matches,
                      sections |-> r.sections]>>
  /\ firstHit' = firstHit \cup
       {[file |-> p, qidx |-> i, query |-> query, line |-> FirstLineFor(r.matches, p)] :
          p \in {x \in PyPathsOf(r.matches) : \A h \in firstHit : h.file # x}}
  /\ hitBy' = hitBy \cup {<<p, i>> : p \in PyPathsOf(r.matches)}
  /\ allZero' = (allZero /\ r.matches = << >>)

----------------------------------------------------------------------------
(* Steps of next_turn *)

(* queries = yield from self.queryAgent.final_result(...) *)
DeriveQueries ==
  /\ pc = "start"
  /\ \E qs \in QueryLists :
       /\ queries' = qs
       /\ pc' = LoopHead(qs, 1)
  /\ qi' = 1
  /\ all_results' = << >>
  /\ completions' = completions + 1
  /\ UNCHANGED <<failure, patchBound, corpus, ci, filtered_results, bundle,
                 config, url, searchCalls, lastSearch, firstHit, hitBy, allZero, relLog, nFail, dirty, staleCalls,
                 httpCalls, postCalls>>

(* the completion call of the query agent raises: nothing catches it *)
DeriveQueriesFails ==
  /\ pc = "start"
  /\ pc' = "failed"
  /\ failure' = "QueryError"
  /\ completions' = completions + 1
  /\ UNCHANGED <<patchBound, corpus, queries, qi, all_results, ci,
                 filtered_results, bundle, config, url, searchCalls, lastSearch, firstHit, hitBy, allZero, relLog,
                 nFail, dirty, staleCalls, httpCalls, postCalls>>

(* searchResponse = self.git_grep_agent.get_search(query) and the merge *)
SearchStep ==
  /\ pc = "search"
  /\ \E proc \in Processes(queries[qi]) :
       LET r == GetSearch(proc) IN
       /\ Observe(qi, queries[qi], proc, r)
       /\ nFail' = IF Failed(proc) THEN nFail + 1 ELSE nFail
       /\ IF r.raised
          THEN /\ pc' = "failed"
               /\ failure' = "SearchError"
               /\ UNCHANGED all_results
          ELSE /\ pc' = "turn"
               /\ failure' = failure
               /\ all_results' = MergeSections(all_results, queries[qi], r.sections)
  /\ UNCHANGED <<patchBound, corpus, queries, qi, ci, filtered_results, bundle,
                 config, url, relLog, dirty, staleCalls, completions,
                 httpCalls, postCalls>>

(* self.git_grep_agent.final_result: GitGrepAgent defines run_git_grep and *)
(* get_search only, so the attribute lookup raises AttributeError          *)
FinalResultMissing ==
  /\ pc = "turn"
  /\ pc' = "failed"
  /\ failure' = "AttributeError"
  /\ UNCHANGED <<patchBound, corpus, queries, qi, all_results, ci,
                 filtered_results, bundle, config, url, searchCalls, lastSearch, firstHit, hitBy, allZero, relLog,
                 nFail, dirty, staleCalls, completions, httpCalls, postCalls>>

(* final_result of a grep agent that takes turns, as the Agent behind     *)
(* queryAgent does: one turn runs the line search for                      *)
(* request_context["query"] and returns its CodeSections                   *)
AgentTurn(proc) == GetSearch(proc)

(* searchResponse = yield from self.git_grep_agent.final_result(...) with  *)
(* a grep agent that takes turns, then the second merge                    *)
FinalResultStep ==
  /\ pc = "turn"
  /\ \E proc \in Processes(queries[qi]) :
       LET r == AgentTurn(proc) IN
       /\ Observe(qi, queries[qi], proc, r)
       /\ nFail' = IF Failed(proc) THEN nFail + 1 ELSE nFail
       /\ IF r.raised
          THEN /\ pc' = "failed"
               /\ failure' = "SearchError"
               /\ UNCHANGED <<all_results, qi>>
          ELSE /\ pc' = LoopHead(queries, qi + 1)
               /\ failure' = failure
               /\ qi' = qi + 1
               /\ all_results' = MergeSections(all_results, queries[qi], r.sections)
  /\ UNCHANGED <<patchBound, corpus, queries, ci, filtered_results, bundle,
                 config, url, relLog, dirty, staleCalls, completions,
                 httpCalls, postCalls>>

(* one pass of "for result in all_results.values()" *)
FilterStep ==
  /\ pc = "filter"
  /\ IF ci > Len(all_results)
     THEN /\ pc' = "assemble"
          /\ UNCHANGED <<failure, ci, filtered_results, relLog, dirty,
                         staleCalls, completions>>
     ELSE \E outcome \in (IF patchBound THEN RelevanceOutcomes ELSE {"NameError"}) :
       LET result == all_results[ci].result
           t == RelevanceTry(outcome)
       IN
       /\ relLog' = Append(relLog, [file |-> all_results[ci].file,
                                    outcome |-> outcome,
                                    fresh |-> ~dirty])
       /\ completions' = IF t.called THEN completions + 1 ELSE completions
       /\ staleCalls' = IF t.called /\ dirty THEN staleCalls + 1 ELSE staleCalls
       /\ dirty' = IF t.reset THEN FALSE ELSE (dirty \/ t.called)
       /\ filtered_results' = IF t.keep THEN Append(filtered_results, result)
                              ELSE filtered_results
       /\ IF t.escaped
          THEN /\ pc' = "failed"
               /\ failure' = "RelevanceError"
               /\ UNCHANGED ci
          ELSE /\ pc' = FilterHead(all_results, ci + 1)
               /\ failure' = failure
               /\ ci' = ci + 1
  /\ UNCHANGED <<patchBound, corpus, queries, qi, all_results, bundle, config,
                 url, searchCalls, lastSearch, firstHit, hitBy, allZero, nFail, httpCalls, postCalls>>

(* formatted_str = self.prepare_summary(patch_content, filtered_results) *)
Assemble ==
  /\ pc = "assemble"
  /\ IF patchBound
     THEN /\ bundle' = PrepareSummary(PatchText, filtered_results)
          /\ pc' = "summarize"
          /\ failure' = failure
     ELSE /\ pc' = "failed"
          /\ failure' = "NameError"
          /\ UNCHANGED bundle
  /\ UNCHANGED <<patchBound, corpus, queries, qi, all_results, ci,
                 filtered_results, config, url, searchCalls, lastSearch, firstHit, hitBy, allZero, relLog, nFail,
                 dirty, staleCalls, completions, httpCalls, postCalls>>

(* summary = self.summaryAgent << formatted_str *)
Summarize ==
  /\ pc = "summarize"
  /\ \E ok \in BOOLEAN :
       /\ pc' = IF ok THEN "post" ELSE "failed"
       /\ failure' = IF ok THEN failure ELSE "SummaryError"
  /\ completions' = completions + 1
  /\ UNCHANGED <<patchBound, corpus, queries, qi, all_results, ci,
                 filtered_results, bundle, config, url, searchCalls, lastSearch, firstHit, hitBy, allZero, relLog,
                 nFail, dirty, staleCalls, httpCalls, postCalls>>

(* comment_url = self.post_to_github(summary); return comment_url *)
PostToGithub ==
  /\ pc = "post"
  /\ \E cfg \in Configs, response \in Responses :
       LET r == PostToGithubResult(cfg, response) IN
       /\ config' = cfg
       /\ httpCalls' = httpCalls + r.http
       /\ failure' = r.failure
       /\ url' = r.url
       /\ pc' = IF r.failure = "none" THEN "done" ELSE "failed"
  /\ postCalls' = postCalls + 1
  /\ UNCHANGED <<patchBound, corpus, queries, qi, all_results, ci,
                 filtered_results, bundle, searchCalls, lastSearch, firstHit, hitBy, allZero, relLog, nFail, dirty,
                 staleCalls, completions>>

Next ==
  \/ DeriveQueries
  \/ DeriveQueriesFails
  \/ SearchStep
  \/ FinalResultMissing
  \/ FinalResultStep
  \/ FilterStep
  \/ Assemble
  \/ Summarize
  \/ PostToGithub

Spec == Init /\ [][Next]_vars

(* next_turn with GitGrepAgent exactly as git_grep_agent.py defines it:    *)
(* the call of final_result always raises                                  *)
NextGiven ==
  \/ DeriveQueries
  \/ DeriveQueriesFails
  \/ SearchStep
  \/ FinalResultMissing
  \/ FilterStep
  \/ Assemble
  \/ Summarize
  \/ PostToGithub

SpecGiven == Init /\ [][NextGiven]_vars

----------------------------------------------------------------------------
(* Properties *)

FilteredPaths == {filtered_results[i].file_path : i \in 1..Len(filtered_results)}

PatchBlock == [tag |-> <<"Patch file">>, body |-> PatchText]

RelevanceFailures == {"raise", "malformed"}

(* the filter loop is over: next_turn is at or past prepare_summary *)
PastFilter ==
  \/ pc \in {"assemble", "summarize", "post", "done"}
  \/ pc = "failed" /\ failure \in {"NameError", "SummaryError", "ConfigError", "HTTPError"}

(* next_turn has returned or raised after the query list was derived *)
RunOver == pc \in {"done", "failed"} /\ failure # "QueryError"

C3_OneSearchPerQuery ==
  (RunOver \/ PastFilter) => searchCalls = Min(Len(queries), MaxSearches)

C6_OnlyPostingFailuresEscape ==
  pc = "failed" => failure \in {"ConfigError", "HTTPError"}

(* C7: with a required key missing, post_to_github raises the             *)
(* configuration error without having made its HTTP request, and it is     *)
(* called once.                                                            *)
C7_ConfigErrorBeforeRequest ==
  /\ failure = "ConfigError" => httpCalls = 0 /\ postCalls = 1
  /\ (postCalls > 0 /\ \E k \in ConfigKeys : config[k] # "set")
       => pc = "failed" /\ failure = "ConfigError"
  /\ postCalls <= 1 /\ httpCalls <= postCalls

(* exactly one key is missing and the run ended in the configuration error *)
C7_Witness ==
  /\ pc = "failed"
  /\ failure = "ConfigError"
  /\ Cardinality({k \in ConfigKeys : config[k] # "set"}) = 1
  /\ config["GITHUB_API_KEY"] = "unset"

====
